---------------------------- MODULE Spec2Model ----------------------------
(***************************************************************************)
(* A model of the evsrt.org cloud functions:                               *)
(*   - discord-reminder-bot: module load (SCHEDULES), lambda_handler,      *)
(*     should_trigger, get_weekday_occurrence_in_month;                    *)
(*   - email-unsub: generate_verification_token, verify_token,             *)
(*     lambda_handler;                                                     *)
(*   - email-digest: generate_verification_token and the send loop of      *)
(*     lambda_handler that embeds the unsubscribe URL.                     *)
(*                                                                         *)
(* Text is a sequence of character codes (ASCII / Unicode code points).    *)
(* The Pacific wall clock is modelled without daylight-saving jumps.       *)
(***************************************************************************)
EXTENDS Integers, Sequences, FiniteSets, TLC

VARIABLES
    now,          \* reminder bot: the Pacific-local instant [year, month, day, hour]
    evalRule,     \* should_trigger under test: the rule last evaluated
    evalDone,     \* should_trigger under test: TRUE once evaluated at `now`
    evalResult,   \* should_trigger under test: the value returned
    evalNth,      \* value get_weekday_occurrence_in_month returned (0: not called)
    loaded,       \* reminder bot: TRUE once the module has been imported
    SCHEDULES,    \* reminder bot: the module-level list (<< >> before import)
    outcome,      \* reminder bot: last invocation: "none" | "init_error" | "ok"
    sent,         \* reminder bot: rules handed to send_discord_message by the last invocation
    hourLog,      \* reminder bot: the `sent` lists of this hour's invocations
    monthLog,     \* reminder bot: <<name, day, hour>> of every dispatch this month (hourly trigger)
    tokenCase,    \* token scheme under test: [email, list_id, secret, issued, mailed, candidate, result, step]
    unsubEnv,     \* email-unsub: os.environ [SENDGRID_API_KEY, UNSUBSCRIBE_SECRET]
    unsubEvent,   \* email-unsub: the event of the last request
    unsubResp,    \* email-unsub: what the last request returned and did
    digestEnv,    \* email-digest: os.environ
    digestRun,    \* email-digest: the result of the last run of the handler
    clicked,      \* index in digestRun.attempts of the unsubscribe link last followed (0: none)
    spotEnv,      \* spot bot: os.environ [discord_webhook, mattermost_webhook]
    spotEvent,    \* spot bot: the JSON object of the last event's body
    spotResp,     \* spot bot: what the last invocation returned and posted
    today,        \* email-digest: the UTC date [year, month, day]
    filterRun     \* email-digest: the last call of filter_contests_for_next_week

reminderVars == <<now, loaded, SCHEDULES, outcome, sent, hourLog, monthLog>>
evalVars == <<evalRule, evalDone, evalResult, evalNth>>
mailVars == <<tokenCase, unsubEnv, unsubEvent, unsubResp, digestEnv, digestRun, clicked>>
relayVars == <<spotEnv, spotEvent, spotResp>>
feedVars == <<today, filterRun>>

----------------------------------------------------------------------------
(* Bounds *)

\* Number of consecutive calendar months, from January 2024, the clock may be in.
NumMonths == 12

\* Invocations of the reminder handler within one clock hour.
MaxInvPerHour == 2

\* Contacts the two SendGrid lists hold together in one digest run.
MaxContacts == 2
MaxContests == 2

----------------------------------------------------------------------------
(* The calendar behind datetime(year, month, day).weekday()                *)

IsLeap(y) == (y % 4 = 0 /\ y % 100 # 0) \/ y % 400 = 0

DaysInMonth(y, m) ==
    IF m = 2 THEN (IF IsLeap(y) THEN 29 ELSE 28)
    ELSE IF m \in {4, 6, 9, 11} THEN 30 ELSE 31

RECURSIVE DaysBeforeMonth(_, _)
DaysBeforeMonth(y, m) ==
    IF m = 1 THEN 0 ELSE DaysBeforeMonth(y, m - 1) + DaysInMonth(y, m - 1)

RECURSIVE DaysBeforeYear(_)
\* Days from 2024-01-01 to y-01-01.
DaysBeforeYear(y) ==
    IF y = 2024 THEN 0
    ELSE DaysBeforeYear(y - 1) + (IF IsLeap(y - 1) THEN 366 ELSE 365)

\* datetime.weekday(): Monday is 0, Sunday is 6.  2024-01-01 was a Monday.
Weekday(y, m, d) == (DaysBeforeYear(y) + DaysBeforeMonth(y, m) + (d - 1)) % 7

NowWeekday(dt) == Weekday(dt.year, dt.month, dt.day)

\* The months of the model: index i is month (i % 12) + 1 of year 2024 + i \div 12.
Months == { [year |-> 2024 + (i \div 12), month |-> (i % 12) + 1] : i \in 0..(NumMonths - 1) }

Instants ==
    { [year |-> ym.year, month |-> ym.month, day |-> d, hour |-> h] :
        ym \in Months, d \in 1..31, h \in 0..23 }

MonthStarts == { [year |-> ym.year, month |-> ym.month, day |-> 1, hour |-> 0] : ym \in Months }

LastHourOfMonth(dt) == dt.day = DaysInMonth(dt.year, dt.month) /\ dt.hour = 23

\* The hourly trigger's next instant within the month.
NextHour(dt) ==
    IF dt.hour < 23 THEN [dt EXCEPT !.hour = dt.hour + 1]
    ELSE [dt EXCEPT !.day = dt.day + 1, !.hour = 0]

----------------------------------------------------------------------------
(* discord-reminder-bot: the schedule predicate                            *)

RECURSIVE CountWeekday(_, _, _)
\* The loop of get_weekday_occurrence_in_month over range(lo, hi + 1).
CountWeekday(dt, lo, hi) ==
    IF lo > hi THEN 0
    ELSE (IF Weekday(dt.year, dt.month, lo) = NowWeekday(dt) THEN 1 ELSE 0)
         + CountWeekday(dt, lo + 1, hi)

\* Mutant: range(1, dt.day) leaves the day itself out.
get_weekday_occurrence_in_month_OffByOne(dt) == CountWeekday(dt, 1, dt.day - 1)

get_weekday_occurrence_in_month(dt) == CountWeekday(dt, 1, dt.day)

Returned(v) == [raised |-> FALSE, value |-> v]

\* A KeyError (or any other exception) leaving the function.
Raised == [raised |-> TRUE, value |-> FALSE]

\* Mutant: the hour test is dropped.
should_trigger_NoHour(schedule, dt) ==
    IF NowWeekday(dt) \notin schedule.days_of_week THEN Returned(FALSE)
    ELSE IF schedule.has_week_of_month
              /\ get_weekday_occurrence_in_month(dt) \notin schedule.week_of_month
         THEN Returned(FALSE)
    ELSE Returned(TRUE)

\* Mutant: schedule['week_of_month'] is read without the `in schedule` test.
should_trigger_Unguarded(schedule, dt) ==
    IF NowWeekday(dt) \notin schedule.days_of_week THEN Returned(FALSE)
    ELSE IF dt.hour # schedule.hour THEN Returned(FALSE)
    ELSE IF ~schedule.has_week_of_month THEN Raised
    ELSE IF get_weekday_occurrence_in_month(dt) \notin schedule.week_of_month
         THEN Returned(FALSE)
    ELSE Returned(TRUE)

\* A rule is a dict; has_week_of_month is `'week_of_month' in schedule`, and
\* week_of_month is read only when the key is there.
should_trigger(schedule, dt) ==
    IF NowWeekday(dt) \notin schedule.days_of_week THEN Returned(FALSE)
    ELSE IF dt.hour # schedule.hour THEN Returned(FALSE)
    ELSE IF schedule.has_week_of_month
              /\ get_weekday_occurrence_in_month(dt) \notin schedule.week_of_month
         THEN Returned(FALSE)
    ELSE Returned(TRUE)

\* nth as should_trigger computes it; 0 when the function is not reached.
NthComputed(schedule, dt) ==
    IF NowWeekday(dt) \in schedule.days_of_week /\ dt.hour = schedule.hour
       /\ schedule.has_week_of_month
    THEN get_weekday_occurrence_in_month(dt)
    ELSE 0

Rule(n, dows, has, woms, h, msg, ch) ==
    [name |-> n, days_of_week |-> dows, has_week_of_month |-> has,
     week_of_month |-> woms, hour |-> h, message |-> msg, channel |-> ch]

\* Rules should_trigger is exercised on: the shapes of SCHEDULES, rules with
\* no week_of_month key, with an empty week_of_month list, and with a single week.
TestRules ==
    { Rule("t", dows, w[1], w[2], h, "m", "c") :
        dows \in {{6}, {0, 1, 2, 3, 4, 5, 6}, {0, 2}},
        w \in {<<FALSE, {}>>, <<TRUE, {}>>, <<TRUE, {1, 3}>>,
               <<TRUE, {1, 2, 3, 4, 5}>>, <<TRUE, {5}>>},
        h \in {12, 21} }

NoRule == Rule("none", {}, FALSE, {}, 0, "m", "c")

----------------------------------------------------------------------------
(* discord-reminder-bot: module load                                       *)

\* The `strings` list of cw_random_string.  The fourth and fifth literals have
\* no comma between them, so Python concatenates them into one element.
CwStrings ==
    << "Hey silly-face, did you get your 15 minutes of CW practice in today?",
       "Hey lazy-ass, did you get your 15 minutes of CW practice in today?",
       "PRACTICE CW FOR 15 MINUTES, AT LEAST!",
       "Practice CW or die.Did you get your 15 minutes of CW practice in today?",
       "Not decoding 20 WPM yet, eh? Did you practice today? Mmm-hmm...",
       "You can decrease the number of people you will disappoint with your CW by practicing more. Did you practice today?" >>

\* strings[now_pt.weekday()]: IndexError when the index is past the list.
cw_random_string(dt) ==
    LET i == NowWeekday(dt)
    IN  IF i + 1 \in DOMAIN CwStrings
        THEN [raised |-> FALSE, value |-> CwStrings[i + 1]]
        ELSE [raised |-> TRUE, value |-> ""]

\* The SCHEDULES literal, with the message of the third rule already computed.
ScheduleTable(cw) ==
    << Rule("EVSRT Reminder", {6}, TRUE, {1, 3}, 12, "EVSRT Tonight", "evsrt"),
       Rule("EVSRT Now", {6}, TRUE, {1, 3}, 21, "EVSRT Starting NOW!", "evsrt"),
       Rule("Daily CW Practice Check-In", {0, 1, 2, 3, 4, 5, 6}, TRUE, {1, 2, 3, 4, 5}, 21,
            cw, "cw_club") >>

\* Importing the module at instant dt: SCHEDULES is built once, calling
\* cw_random_string(); an exception there aborts the import.
LoadModule(dt) ==
    LET cw == cw_random_string(dt)
    IN  IF cw.raised THEN [raised |-> TRUE, schedules |-> << >>]
        ELSE [raised |-> FALSE, schedules |-> ScheduleTable(cw.value)]

----------------------------------------------------------------------------
(* Text                                                                    *)

\* Python's None, kept apart from every text (no text holds a negative code).
None == << -1 >>

\* `not x` for a value that is None or a str.
Falsy(x) == x = None \/ x = << >>

\* str(x) as an f-string formats it.
Str(x) == IF x = None THEN <<78, 111, 110, 101>> ELSE x

\* str.lower() on the characters used here (ASCII letters).
Lower(t) == [i \in DOMAIN t |-> IF t[i] \in 65..90 THEN t[i] + 32 ELSE t[i]]

Upper(t) == [i \in DOMAIN t |-> IF t[i] \in 97..122 THEN t[i] - 32 ELSE t[i]]

IsAscii(t) == \A i \in DOMAIN t : t[i] < 128

RECURSIVE Find(_, _, _)
\* The first index >= from at which t holds the character c; 0 if none.
Find(t, c, from) ==
    IF from > Len(t) THEN 0
    ELSE IF t[from] = c THEN from
    ELSE Find(t, c, from + 1)

RECURSIVE Split(_, _)
\* t.split(c)
Split(t, c) ==
    LET k == Find(t, c, 1)
    IN  IF k = 0 THEN << t >>
        ELSE << SubSeq(t, 1, k - 1) >> \o Split(SubSeq(t, k + 1, Len(t)), c)

\* The texts of the model.
TxtEmailParam == <<101, 109, 97, 105, 108>>            \* "email"
TxtListParam == <<108, 105, 115, 116>>                 \* "list"
TxtVerifyParam == <<118, 101, 114, 105, 102, 121>>     \* "verify"
TxtTokenParam == <<116, 111, 107, 101, 110>>           \* "token"
TxtHttps == <<104, 116, 116, 112, 115, 58, 47, 47>>    \* "https://"
TxtBaseUrl == <<117, 46, 105, 111, 47, 117>>           \* "u.io/u"
TxtLowerEmail == <<97, 64, 98, 46, 99>>                \* "a@b.c"
TxtMixedEmail == <<65, 98, 64, 67, 46, 100>>           \* "Ab@C.d"
TxtOtherEmail == <<110, 48, 64, 113, 46, 114, 115>>   \* "n0@q.rs"
TxtHtmlList == <<104, 49>>                             \* "h1"
TxtPlainList == <<112, 50>>                            \* "p2"
TxtSecretA == <<115, 51, 99, 114>>                     \* "s3cr"
TxtSecretB == <<107, 101, 121, 50>>                    \* "key2"
TxtApiKey == <<83, 71, 46, 107>>                       \* "SG.k"
TxtFrom == <<102, 64, 120>>                            \* "f@x"
TxtZip == <<57, 49, 54>>                               \* "916"
TxtNonAscii == <<233>>                                 \* "é"

----------------------------------------------------------------------------
(* The unsubscribe token                                                   *)

RECURSIVE WeightedSum(_, _, _)
WeightedSum(t, w, i) ==
    IF i > Len(t) THEN 0 ELSE t[i] * (w + i) + WeightedSum(t, w, i + 1)

\* hexdigest() is lower-case: "0123456789abcdef".
HexChar(d) == IF d < 10 THEN 48 + d ELSE 87 + d

\* hmac.new(key, msg, hashlib.sha256).hexdigest(): 64 lower-case hex
\* characters, a fixed function of key and message.  SHA-256 itself is
\* replaced by a small keyed mixing function that depends on every character
\* of both arguments and on their positions.
HmacSha256Hex(key, msg) ==
    [i \in 1..64 |->
        HexChar((((WeightedSum(key, i, 1) + WeightedSum(msg, 2 * i + 1, 1)
                   + Len(key) * 31 + Len(msg) * 17) % 257) + i) % 16)]

\* email-digest's copy with the digest cut after 16 characters instead of 12.
digest_generate_verification_token_Long(email, list_id, secret_key) ==
    IF secret_key = None THEN [raised |-> TRUE, value |-> << >>]
    ELSE [raised |-> FALSE,
          value |-> SubSeq(HmacSha256Hex(secret_key, Str(email) \o <<58>> \o Str(list_id)), 1, 16)]

\* email-digest's copy.
digest_generate_verification_token(email, list_id, secret_key) ==
    IF secret_key = None THEN [raised |-> TRUE, value |-> << >>]
    ELSE [raised |-> FALSE,
          value |-> SubSeq(HmacSha256Hex(secret_key, Str(email) \o <<58>> \o Str(list_id)), 1, 12)]

\* email-unsub's copy: f"{email}:{list_id}", HMAC-SHA256 under the secret,
\* the first 12 characters of the hex digest.  None has no .encode().
generate_verification_token(email, list_id, secret_key) ==
    IF secret_key = None THEN [raised |-> TRUE, value |-> << >>]
    ELSE [raised |-> FALSE,
          value |-> SubSeq(HmacSha256Hex(secret_key, Str(email) \o <<58>> \o Str(list_id)), 1, 12)]

\* hmac.compare_digest on two str: TypeError unless both are ASCII-only.
compare_digest(a, b) ==
    IF ~IsAscii(a) \/ ~IsAscii(b) \/ a = None \/ b = None THEN Raised
    ELSE Returned(a = b)

\* Mutant: the expected token is the whole digest, not its first 12 characters.
verify_token_Untruncated(email, list_id, provided_token, secret_key) ==
    IF secret_key = None THEN Raised
    ELSE compare_digest(HmacSha256Hex(secret_key, Str(email) \o <<58>> \o Str(list_id)),
                        provided_token)

verify_token(email, list_id, provided_token, secret_key) ==
    LET expected_token == generate_verification_token(email, list_id, secret_key)
    IN  IF expected_token.raised THEN Raised
        ELSE compare_digest(expected_token.value, provided_token)

----------------------------------------------------------------------------
(* discord-reminder-bot: lambda_handler                                    *)

RECURSIVE HandlerLoop(_, _, _, _)
\* for schedule in SCHEDULES: if should_trigger(schedule, now_pt): send_discord_message(schedule)
\* acc is the sequence of rules handed to send_discord_message so far; an
\* exception in should_trigger leaves the loop and the handler.
HandlerLoop(schedules, dt, i, acc) ==
    IF i > Len(schedules) THEN [raised |-> FALSE, sent |-> acc]
    ELSE LET t == should_trigger(schedules[i], dt)
         IN  IF t.raised THEN [raised |-> TRUE, sent |-> acc]
             ELSE HandlerLoop(schedules, dt, i + 1,
                              IF t.value THEN Append(acc, schedules[i]) ELSE acc)

RECURSIVE SuppressingLoop(_, _, _, _)
SuppressingLoop(schedules, dt, i, acc) ==
    IF i > Len(schedules) THEN [raised |-> FALSE, sent |-> acc]
    ELSE LET t == should_trigger(schedules[i], dt)
             seen == \E k \in DOMAIN hourLog :
                        \E j \in DOMAIN hourLog[k] : hourLog[k][j].name = schedules[i].name
         IN  IF t.raised THEN [raised |-> TRUE, sent |-> acc]
             ELSE SuppressingLoop(schedules, dt, i + 1,
                              IF t.value /\ ~seen THEN Append(acc, schedules[i]) ELSE acc)

\* Mutant: a rule already sent in this hour is suppressed.
lambda_handler_Suppress(schedules, dt) == SuppressingLoop(schedules, dt, 1, << >>)

\* One run of the handler: the rules dispatched, in dispatch order.
lambda_handler(schedules, dt) == HandlerLoop(schedules, dt, 1, << >>)

\* One Lambda invocation at `now`: on a cold container the module is imported
\* first; if the import raises, the handler never runs and nothing is sent.
Invocation(ld) ==
    /\ Len(hourLog) < MaxInvPerHour
    /\ IF ld.raised
       THEN /\ loaded' = FALSE
            /\ SCHEDULES' = << >>
            /\ outcome' = "init_error"
            /\ sent' = << >>
       ELSE LET run == lambda_handler(ld.schedules, now)
            IN  /\ loaded' = TRUE
                /\ SCHEDULES' = ld.schedules
                /\ outcome' = IF run.raised THEN "handler_error" ELSE "ok"
                /\ sent' = run.sent
    /\ hourLog' = Append(hourLog, sent')
    /\ UNCHANGED now

ColdInvoke ==
    /\ ~loaded
    /\ Invocation(LoadModule(now))
    /\ UNCHANGED <<relayVars, feedVars, monthLog, evalVars, mailVars>>

WarmInvoke ==
    /\ loaded
    /\ Invocation([raised |-> FALSE, schedules |-> SCHEDULES])
    /\ UNCHANGED <<relayVars, feedVars, monthLog, evalVars, mailVars>>

\* The clock reaches the next hour of the month.
Tick ==
    /\ ~LastHourOfMonth(now)
    /\ now' = NextHour(now)
    /\ outcome' = "none"
    /\ sent' = << >>
    /\ hourLog' = << >>
    /\ UNCHANGED <<relayVars, feedVars, loaded, SCHEDULES, monthLog, evalVars, mailVars>>

Dispatches == { <<sent'[j].name, now.day, now.hour>> : j \in DOMAIN sent' }

\* The hourly trigger: exactly one invocation in every hour.
HourlyCold ==
    /\ hourLog = << >>
    /\ ~loaded
    /\ Invocation(LoadModule(now))
    /\ monthLog' = monthLog \cup Dispatches
    /\ UNCHANGED <<relayVars, feedVars, evalVars, mailVars>>

HourlyWarm ==
    /\ hourLog = << >>
    /\ loaded
    /\ Invocation([raised |-> FALSE, schedules |-> SCHEDULES])
    /\ monthLog' = monthLog \cup Dispatches
    /\ UNCHANGED <<relayVars, feedVars, evalVars, mailVars>>

HourlyTick ==
    /\ Len(hourLog) = 1
    /\ Tick

\* should_trigger applied to a rule at the current instant.
Evaluate ==
    /\ ~evalDone
    /\ \E r \in TestRules :
          /\ evalRule' = r
          /\ evalResult' = should_trigger(r, now)
          /\ evalNth' = NthComputed(r, now)
    /\ evalDone' = TRUE
    /\ UNCHANGED <<relayVars, feedVars, reminderVars, mailVars>>

EvalTick ==
    /\ ~LastHourOfMonth(now)
    /\ now' = NextHour(now)
    /\ evalDone' = FALSE
    /\ evalRule' = NoRule
    /\ evalResult' = Returned(FALSE)
    /\ evalNth' = 0
    /\ UNCHANGED <<relayVars, feedVars, loaded, SCHEDULES, outcome, sent, hourLog, monthLog, mailVars>>

----------------------------------------------------------------------------
(* email-unsub: lambda_handler                                             *)

\* An API Gateway event.  null is TRUE when queryStringParameters is missing
\* or null; otherwise each parameter is its text, or None when not given.
Event(null, e, l, v, t) == [null |-> null, email |-> e, list |-> l, verify |-> v, token |-> t]

NoEvent == Event(TRUE, None, None, None, None)

\* `not query_params`: None, or a dict with no key.
NoParams(event) ==
    \/ event.null
    \/ event.email = None /\ event.list = None /\ event.verify = None /\ event.token = None

Response(code, why, verified, removed) ==
    [statusCode |-> code, body |-> why, verify |-> verified, removeCalls |-> removed]

NoResponse == Response(0, "none", "not called", << >>)

\* Mutant: the unsubscribe goes ahead whatever verify_token returned.
unsub_lambda_handler_NoCheck(event, env, removeOk) ==
    IF NoParams(event) THEN Response(400, "Missing parameters", "not called", << >>)
    ELSE LET email == Lower(IF event.email = None THEN << >> ELSE event.email)
         IN  Response(IF removeOk THEN 200 ELSE 500, "Unsubscribed", "not called",
                      << <<env.SENDGRID_API_KEY, event.list, email, removeOk>> >>)

\* Mutant: the environment is read and checked before the parameters are.
unsub_lambda_handler_EnvFirst(event, env, removeOk) ==
    IF Falsy(env.SENDGRID_API_KEY) \/ Falsy(env.UNSUBSCRIBE_SECRET)
    THEN Response(500, "Configuration error", "not called", << >>)
    ELSE IF NoParams(event) THEN Response(400, "Missing parameters", "not called", << >>)
    ELSE
    LET email == Lower(IF event.email = None THEN << >> ELSE event.email)
    IN  IF Falsy(email) \/ Falsy(event.list) \/ Falsy(event.verify)
        THEN Response(400, "Missing email, list, or verify parameter", "not called", << >>)
        ELSE
        LET ok == verify_token(email, event.list, event.verify, env.UNSUBSCRIBE_SECRET)
        IN  IF ok.raised THEN Response(500, "An unexpected error occurred", "raised", << >>)
            ELSE IF ~ok.value THEN Response(403, "Invalid verification token", "false", << >>)
            ELSE Response(IF removeOk THEN 200 ELSE 500,
                          IF removeOk THEN "Unsubscribed" ELSE "Failed to process unsubscribe",
                          "true", << <<env.SENDGRID_API_KEY, event.list, email, removeOk>> >>)

\* remove_from_sendgrid_list catches every exception and returns True or False:
\* removeOk is the value it returns for this request.
\* removeCalls lists its calls as <<api_key, list_id, email, returned value>>.
unsub_lambda_handler(event, env, removeOk) ==
    IF NoParams(event) THEN Response(400, "Missing parameters", "not called", << >>)
    ELSE
    LET email == Lower(IF event.email = None THEN << >> ELSE event.email)
        list_id == event.list
        provided_token == event.verify
    IN  IF Falsy(email) \/ Falsy(list_id) \/ Falsy(provided_token)
        THEN Response(400, "Missing email, list, or verify parameter", "not called", << >>)
        ELSE IF Falsy(env.SENDGRID_API_KEY) \/ Falsy(env.UNSUBSCRIBE_SECRET)
        THEN Response(500, "Configuration error", "not called", << >>)
        ELSE
        LET ok == verify_token(email, list_id, provided_token, env.UNSUBSCRIBE_SECRET)
        IN  IF ok.raised
            THEN Response(500, "An unexpected error occurred", "raised", << >>)
            ELSE IF ~ok.value
            THEN Response(403, "Invalid verification token", "false", << >>)
            ELSE IF ~removeOk
            THEN Response(500, "Failed to process unsubscribe", "true",
                          << <<env.SENDGRID_API_KEY, list_id, email, removeOk>> >>)
            ELSE Response(200, "Unsubscribed", "true",
                          << <<env.SENDGRID_API_KEY, list_id, email, removeOk>> >>)

----------------------------------------------------------------------------
(* email-digest: the send loop of lambda_handler                           *)

Contact(e, z) == [email |-> e, postal_code |-> z]

TxtZip2 == <<57, 55, 50>>                               \* "972"

\* weather_by_zip, a dict: its entries <<key, value>> in insertion order.
CacheKeys(cache) == { cache[k][1] : k \in DOMAIN cache }

\* weather_by_zip.get(zip_code): None for a key not there (and for a None stored).
CacheGet(cache, zip_code) ==
    IF zip_code \in CacheKeys(cache)
    THEN LET k == CHOOSE k \in DOMAIN cache : cache[k][1] = zip_code IN cache[k][2]
    ELSE None

\* weather_by_zip[zip_code] = forecast
CacheSet(cache, zip_code, forecast) ==
    IF zip_code \in CacheKeys(cache)
    THEN [k \in DOMAIN cache |->
            IF cache[k][1] = zip_code THEN <<zip_code, forecast>> ELSE cache[k]]
    ELSE Append(cache, <<zip_code, forecast>>)

\* The calls to fn in the log of lookups.
CallsTo(fn, calls) == SelectSeq(calls, LAMBDA c : c.fn = fn)

\* One pass of the weather loop over recipient.  world[zip] is what the
\* lookups for that postal code end in: "no coords" (zip_to_coords returns
\* None), "no forecast" (fetch_weather_forecast returns None) or "ok"; a
\* forecast that is returned carries the number of the call that fetched it,
\* two fetches never returning the same one.
Lookup_zip(zip_code, world, state) ==
    LET geocoded == Append(state.calls, [fn |-> "zip_to_coords", zip |-> zip_code])
    IN  IF world[zip_code] = "no coords"
        THEN [cache |-> CacheSet(state.cache, zip_code, None), calls |-> geocoded]
        ELSE
        LET fetched == Append(geocoded, [fn |-> "fetch_weather_forecast", zip |-> zip_code])
            forecast == IF world[zip_code] = "no forecast" THEN None
                        ELSE <<zip_code, Len(CallsTo("fetch_weather_forecast", fetched))>>
        IN  [cache |-> CacheSet(state.cache, zip_code, forecast), calls |-> fetched]

\* Mutant: a postal code whose lookup gave nothing is looked up again.
RECURSIVE WeatherLoop_RetryFailed(_, _, _, _)
WeatherLoop_RetryFailed(all_recipients, world, i, state) ==
    IF i > Len(all_recipients) THEN state
    ELSE LET zip_code == all_recipients[i].postal_code
         IN  WeatherLoop_RetryFailed(all_recipients, world, i + 1,
                 IF ~Falsy(zip_code) /\ CacheGet(state.cache, zip_code) = None
                 THEN Lookup_zip(zip_code, world, state)
                 ELSE state)

\* for recipient in all_recipients: if zip_code and zip_code not in
\* weather_by_zip, look it up.  state is [cache, calls].
RECURSIVE WeatherLoop(_, _, _, _)
WeatherLoop(all_recipients, world, i, state) ==
    IF i > Len(all_recipients) THEN state
    ELSE LET zip_code == all_recipients[i].postal_code
         IN  WeatherLoop(all_recipients, world, i + 1,
                 IF ~Falsy(zip_code) /\ zip_code \notin CacheKeys(state.cache)
                 THEN Lookup_zip(zip_code, world, state)
                 ELSE state)

\* for recipient in all_recipients, from index i on.  attempts holds, for
\* every recipient reached, what the loop did with it (forecast: what
\* format_weather_* was given); fails is the set of indices at which sg.send
\* (or Mail) raises.
RECURSIVE SendLoop(_, _, _, _, _, _)
SendLoop(all_recipients, env, fails, weather_by_zip, i, attempts) ==
    IF i > Len(all_recipients) THEN [crashed |-> FALSE, attempts |-> attempts]
    ELSE
    LET recipient == all_recipients[i]
        recipient_email == recipient.email
        zip_code == recipient.postal_code
        list_id == IF recipient.type = "html" THEN env.SENDGRID_HTML_LIST_ID
                   ELSE env.SENDGRID_PLAIN_LIST_ID
        token == digest_generate_verification_token(recipient_email, list_id,
                                                    env.UNSUBSCRIBE_SECRET)
    IN  \* "https://" + None is a TypeError, None.encode an AttributeError:
        \* neither is caught, the handler ends there.
        IF env.UNSUBSCRIBE_BASE_URL = None \/ token.raised
        THEN [crashed |-> TRUE, attempts |-> attempts]
        ELSE
        LET unsub_url == TxtHttps \o env.UNSUBSCRIBE_BASE_URL
                         \o <<63>> \o TxtEmailParam \o <<61>> \o Str(recipient_email)
                         \o <<38>> \o TxtListParam \o <<61>> \o Str(list_id)
                         \o <<38>> \o TxtTokenParam \o <<61>> \o token.value
            did == IF Falsy(recipient_email) THEN "skipped: no email"
                   ELSE IF Falsy(zip_code) THEN "skipped: no ZIP"
                   ELSE IF i \in fails THEN "send raised"
                   ELSE "sent"
            forecast == IF did \in {"send raised", "sent"}
                        THEN CacheGet(weather_by_zip, zip_code) ELSE None
        IN  SendLoop(all_recipients, env, fails, weather_by_zip, i + 1,
                     Append(attempts, [to |-> recipient_email, type |-> recipient.type,
                                       postal_code |-> zip_code, forecast |-> forecast,
                                       unsub_url |-> unsub_url, did |-> did]))

Typed(contacts, type) ==
    [i \in DOMAIN contacts |->
        [email |-> contacts[i].email, postal_code |-> contacts[i].postal_code, type |-> type]]

\* What a run of the handler returned and did: recipients is all_recipients,
\* lookups the calls to zip_to_coords and fetch_weather_forecast in order.
DigestRun(code, reported, crashed, recipients, lookups, attempts) ==
    [statusCode |-> code, reported |-> reported, crashed |-> crashed,
     recipients |-> recipients, lookups |-> lookups, attempts |-> attempts]

NoRun == DigestRun(0, 0, FALSE, << >>, << >>, << >>)

\* html_contacts and plain_contacts are what fetch_sendgrid_list returned
\* (<< >> when the fetch failed).
digest_lambda_handler(env, html_contacts, plain_contacts, fails, world) ==
    IF Falsy(env.SENDGRID_API_KEY) \/ Falsy(env.FROM_EMAIL)
       \/ Falsy(env.SENDGRID_HTML_LIST_ID) \/ Falsy(env.SENDGRID_PLAIN_LIST_ID)
    THEN DigestRun(500, 0, FALSE, << >>, << >>, << >>)
    ELSE IF html_contacts = << >> /\ plain_contacts = << >>
    THEN DigestRun(500, 0, FALSE, << >>, << >>, << >>)
    ELSE
    LET all_recipients == Typed(html_contacts, "html") \o Typed(plain_contacts, "plain")
        weather == WeatherLoop(all_recipients, world, 1, [cache |-> << >>, calls |-> << >>])
        loop == SendLoop(all_recipients, env, fails, weather.cache, 1, << >>)
    IN  IF loop.crashed
        THEN DigestRun(0, 0, TRUE, all_recipients, weather.calls, loop.attempts)
        ELSE DigestRun(200, Len(all_recipients), FALSE, all_recipients, weather.calls,
                       loop.attempts)

----------------------------------------------------------------------------
(* Following an unsubscribe link                                           *)

\* The value of parameter `name` in the pairs of a query string; None if the
\* name is not there.
RECURSIVE Lookup(_, _, _)
Lookup(pairs, name, i) ==
    IF i > Len(pairs) THEN None
    ELSE LET k == Find(pairs[i], 61, 1)
         IN  IF k # 0 /\ SubSeq(pairs[i], 1, k - 1) = name
             THEN SubSeq(pairs[i], k + 1, Len(pairs[i]))
             ELSE Lookup(pairs, name, i + 1)

\* The event API Gateway builds for a GET of url: the text after "?" is cut
\* at "&" and each piece at its first "=".  (The texts of the model hold no
\* character that percent-decoding would change.)
EventOfUrl(url) ==
    LET q == Find(url, 63, 1)
    IN  IF q = 0 \/ q = Len(url) THEN NoEvent
        ELSE LET pairs == Split(SubSeq(url, q + 1, Len(url)), 38)
             IN  Event(FALSE, Lookup(pairs, TxtEmailParam, 1), Lookup(pairs, TxtListParam, 1),
                       Lookup(pairs, TxtVerifyParam, 1), Lookup(pairs, TxtTokenParam, 1))

----------------------------------------------------------------------------
(* discord-spot-bot: lambda_handler                                        *)

\* A key the JSON object of the body does not hold.
Absent == << -2 >>

TxtNA == <<78, 47, 65>>                                 \* "N/A"
TxtSota == <<115, 111, 116, 97>>                        \* "sota"
TxtCw == <<99, 119>>                                    \* "cw"
TxtHook == <<104, 46, 105, 111>>                        \* "h.io"
TxtHook2 == <<109, 46, 105, 111>>                       \* "m.io"

\* payload.get(key, "N/A"): the default stands in for an absent key only; a
\* key present with JSON null yields None.
DictGet(v, default) == IF v = Absent THEN default ELSE v

\* v.upper(): a str method; None (and a number) has none, AttributeError.
UpperOf(v) == IF v = None THEN [raised |-> TRUE, value |-> << >>]
              ELSE [raised |-> FALSE, value |-> Upper(v)]

SpotPayload(source, mode, mode_detail) ==
    [source |-> source, mode |-> mode, modeDetail |-> mode_detail]

SpotResult(to, how, e) == [to |-> to, outcome |-> how, error |-> e]

\* One delivery block: `if webhook: try: post, raise_for_status ... except
\* requests.RequestException ... else: not configured`.  posted is what
\* requests.post did: "ok", or the RequestException it (or raise_for_status)
\* raised.  The run so far is [results, posts]; the block appends to both.
Deliver(run, to, webhook, message, posted) ==
    IF Falsy(webhook)
    THEN [results |-> Append(run.results, SpotResult(to, "Not configured", "")),
          posts |-> run.posts]
    ELSE [results |-> Append(run.results,
                             IF posted = "ok" THEN SpotResult(to, "Success", "")
                             ELSE SpotResult(to, "Failed", posted)),
          posts |-> Append(run.posts, [to |-> to, url |-> webhook, message |-> message])]

SpotResponse(crashed, code, run) ==
    [crashed |-> crashed, statusCode |-> code, results |-> run.results, posts |-> run.posts]

NoSpotResponse == SpotResponse(FALSE, 0, [results |-> << >>, posts |-> << >>])

\* Mutant: a Discord delivery that fails ends the handler.
spot_lambda_handler_StopOnFailure(payload, env, posted) ==
    LET source == UpperOf(DictGet(payload.source, TxtNA))
        mode == UpperOf(DictGet(payload.mode, TxtNA))
        mode_detail == UpperOf(DictGet(payload.modeDetail, TxtNA))
        none == [results |-> << >>, posts |-> << >>]
    IN  IF source.raised \/ mode.raised \/ mode_detail.raised
        THEN SpotResponse(TRUE, 0, none)
        ELSE
        LET message == <<source.value, mode.value, mode_detail.value>>
            first == Deliver(none, "Discord", env.discord_webhook, message, posted.Discord)
        IN  IF first.results[1].outcome = "Failed" THEN SpotResponse(FALSE, 200, first)
            ELSE SpotResponse(FALSE, 200,
                              Deliver(first, "Mattermost", env.mattermost_webhook, message,
                                      posted.Mattermost))

\* payload is the JSON object of event['body']; of the message only the
\* three fields the handler calls .upper() on are kept.  An exception in the
\* formatting is caught nowhere: the invocation fails without a response.
spot_lambda_handler(payload, env, posted) ==
    LET source == UpperOf(DictGet(payload.source, TxtNA))
        mode == UpperOf(DictGet(payload.mode, TxtNA))
        mode_detail == UpperOf(DictGet(payload.modeDetail, TxtNA))
        none == [results |-> << >>, posts |-> << >>]
    IN  IF source.raised \/ mode.raised \/ mode_detail.raised
        THEN SpotResponse(TRUE, 0, none)
        ELSE
        LET message == <<source.value, mode.value, mode_detail.value>>
            first == Deliver(none, "Discord", env.discord_webhook, message, posted.Discord)
            second == Deliver(first, "Mattermost", env.mattermost_webhook, message,
                              posted.Mattermost)
        IN  SpotResponse(FALSE, 200, second)

----------------------------------------------------------------------------
(* email-digest: filter_contests_for_next_week                             *)

Date(y, m, d) == [year |-> y, month |-> m, day |-> d]

\* date.toordinal(), counted from 2024-01-01.
Ordinal(dt) == DaysBeforeYear(dt.year) + DaysBeforeMonth(dt.year, dt.month) + (dt.day - 1)

\* The dates of the two years the model spans.
AllDates ==
    { dt \in { Date(y, m, d) : y \in {2024, 2025}, m \in 1..12, d \in 1..31 } :
        dt.day <= DaysInMonth(dt.year, dt.month) }

\* today + timedelta(days=n)
PlusDays(dt, n) == CHOOSE later \in AllDates : Ordinal(later) = Ordinal(dt) + n

NoDate == Date(0, 0, 0)

\* A description is kept as the pieces str.split(',') and then
\* str.split(' to ') cut it into: a sequence of comma parts, each a sequence
\* of pieces, each piece either a month and day as the calendar prints them
\* ("Dec 18": no year) or some other text (month 0).
MonthDay(dt) == [month |-> dt.month, day |-> dt.day]
OtherText == [month |-> 0, day |-> 0]

\* "0000Z-0100Z, Dec 18"
OneDay(dt) == << <<OtherText>>, <<MonthDay(dt)>> >>
\* "0000Z-2359Z, Dec 18 to Dec 19"
Span(from, to) == << <<OtherText>>, <<MonthDay(from), MonthDay(to)>> >>
\* "See website"
NoComma == << <<OtherText>> >>
\* "0000Z-0100Z, every Monday"
NoDatePart == << <<OtherText>>, <<OtherText>> >>

\* start is the day the contest starts on, year included (NoDate when the
\* description names none); the filter reads `time` only.
Contest(title, time, start) == [title |-> title, time |-> time, start |-> start]

\* datetime.strptime(f"{piece} {year}", "%b %d %Y").date(): ValueError for a
\* text that is no month and day, and for a day the month lacks that year.
strptime(piece, year) ==
    IF piece.month \in 1..12 /\ piece.day \in 1..DaysInMonth(year, piece.month)
    THEN [raised |-> FALSE, value |-> Date(year, piece.month, piece.day)]
    ELSE [raised |-> TRUE, value |-> NoDate]

\* The test the loop applies to one contest.
Included(contest, days) ==
    LET time_str == contest.time
        end_date == Ordinal(today) + days
    IN  IF Len(time_str) > 1                \* ',' in time_str
        THEN LET date_part == time_str[Len(time_str)]
                 start_date_str == date_part[1]
                 contest_date == strptime(start_date_str, today.year)
             IN  IF contest_date.raised THEN TRUE
                 ELSE /\ Ordinal(today) <= Ordinal(contest_date.value)
                      /\ Ordinal(contest_date.value) < end_date
        ELSE TRUE

\* Mutant: the window is closed at its far end.
RECURSIVE filter_contests_for_next_week_Closed(_, _)
filter_contests_for_next_week_Closed(contests, days) ==
    IF contests = << >> THEN << >>
    ELSE LET rest == filter_contests_for_next_week_Closed(
                         SubSeq(contests, 1, Len(contests) - 1), days)
             contest == contests[Len(contests)]
         IN  IF Included(contest, days + 1) THEN Append(rest, contest) ELSE rest

\* today is datetime.utcnow().date(), read when the function is called; the
\* contests that pass are appended to filtered in the order of the input.
RECURSIVE filter_contests_for_next_week(_, _)
filter_contests_for_next_week(contests, days) ==
    IF contests = << >> THEN << >>
    ELSE LET filtered == filter_contests_for_next_week(
                             SubSeq(contests, 1, Len(contests) - 1), days)
             contest == contests[Len(contests)]
         IN  IF Included(contest, days) THEN Append(filtered, contest) ELSE filtered

FilterRun(contests, days, filtered, done) ==
    [contests |-> contests, days |-> days, filtered |-> filtered, done |-> done]

NoFilterRun == FilterRun(<< >>, 0, << >>, FALSE)

----------------------------------------------------------------------------
(* Inputs                                                                  *)

Emails == {TxtLowerEmail, TxtMixedEmail}
ListIds == {TxtHtmlList, TxtPlainList}
Secrets == {TxtSecretA, TxtSecretB}

\* Tokens a caller may present in place of the issued token t.
Candidates(t) ==
    { t,                                             \* unchanged
      << >>,                                         \* empty
      SubSeq(t, 1, Len(t) - 1),                      \* truncated
      t \o <<48>>,                                   \* one character longer
      Upper(t),                                      \* other casing
      [t EXCEPT ![1] = IF t[1] = 48 THEN 49 ELSE 48],\* another hex token
      TxtNonAscii,                                   \* not a hex token at all
      [t EXCEPT ![Len(t)] = 233] }                   \* a non-ASCII character in it

TokenCase(e, l, k, issued, candidate, result, step) ==
    [email |-> e, list_id |-> l, secret |-> k, issued |-> issued, mailed |-> << >>,
     candidate |-> candidate, result |-> result, step |-> step]

UnsubEnvs ==
    { [SENDGRID_API_KEY |-> a, UNSUBSCRIBE_SECRET |-> k] :
        a \in {None, TxtApiKey}, k \in {None, << >>} \cup Secrets }

DigestEnvs ==
    { [SENDGRID_API_KEY |-> TxtApiKey, FROM_EMAIL |-> f,
       SENDGRID_HTML_LIST_ID |-> TxtHtmlList, SENDGRID_PLAIN_LIST_ID |-> TxtPlainList,
       UNSUBSCRIBE_BASE_URL |-> u, UNSUBSCRIBE_SECRET |-> k] :
        f \in {None, TxtFrom}, u \in {None, TxtBaseUrl}, k \in {None, TxtSecretA} }

Contacts == { Contact(e, z) : e \in {None} \cup Emails, z \in {None, TxtZip} }

\* Contacts that differ in their postal code only.
ZipContacts == { Contact(TxtLowerEmail, z) : z \in {None, << >>, TxtZip, TxtZip2} }

Zips == {TxtZip, TxtZip2}

\* What the geocoder and the weather service answer for each postal code of zips.
Worlds(zips) == [zips -> {"no coords", "no forecast", "ok"}]

RECURSIVE SeqsUpTo(_, _)
\* The sequences over S of length at most n.
SeqsUpTo(S, n) ==
    IF n = 0 THEN { << >> }
    ELSE LET shorter == SeqsUpTo(S, n - 1)
         IN  shorter \cup { Append(q, x) : q \in { r \in shorter : Len(r) = n - 1 }, x \in S }

----------------------------------------------------------------------------
(* Actions of the token scheme and the mail handlers                       *)

\* generate_verification_token applied to the case's (email, list_id, secret):
\* issued is what email-unsub's copy returns, mailed what email-digest's does.
IssueToken ==
    /\ tokenCase.step = "start"
    /\ tokenCase' = [tokenCase EXCEPT
            !.issued = generate_verification_token(tokenCase.email, tokenCase.list_id,
                                                   tokenCase.secret).value,
            !.mailed = digest_generate_verification_token(tokenCase.email, tokenCase.list_id,
                                                          tokenCase.secret).value,
            !.step = "issued"]
    /\ UNCHANGED <<relayVars, feedVars, reminderVars, evalVars, unsubEnv, unsubEvent, unsubResp,
                   digestEnv, digestRun, clicked>>

\* verify_token applied to a candidate derived from the issued token.
PresentToken ==
    /\ tokenCase.step = "issued"
    /\ \E c \in Candidates(tokenCase.issued) :
          tokenCase' = [tokenCase EXCEPT
              !.candidate = c,
              !.result = verify_token(tokenCase.email, tokenCase.list_id, c, tokenCase.secret),
              !.step = "verified"]
    /\ UNCHANGED <<relayVars, feedVars, reminderVars, evalVars, unsubEnv, unsubEvent, unsubResp,
                   digestEnv, digestRun, clicked>>

\* The tokens a request may carry: the candidates built from the token of any
\* (email, list, secret) of the model.
RequestTokens ==
    UNION { Candidates(generate_verification_token(Lower(e), l, k).value) :
              e \in Emails, l \in ListIds, k \in {TxtSecretA} }

\* One request to the unsubscribe endpoint.
Unsubscribe ==
    /\ unsubResp = NoResponse
    /\ \E null \in BOOLEAN, e \in {None, << >>} \cup Emails, l \in {None} \cup ListIds,
          v \in {None} \cup RequestTokens, removeOk \in BOOLEAN :
          LET event == Event(null, e, l, v, None)
          IN  /\ unsubEvent' = event
              /\ unsubResp' = unsub_lambda_handler(event, unsubEnv, removeOk)
    /\ UNCHANGED <<relayVars, feedVars, reminderVars, evalVars, tokenCase, unsubEnv, digestEnv, digestRun, clicked>>

\* One run of the digest handler.
RunDigest ==
    /\ digestRun = NoRun
    /\ \E h \in SeqsUpTo(Contacts, MaxContacts), p \in SeqsUpTo(Contacts, MaxContacts) :
          /\ Len(h) + Len(p) <= MaxContacts
          /\ \E fails \in SUBSET (1..(Len(h) + Len(p))), world \in Worlds({TxtZip}) :
                digestRun' = digest_lambda_handler(digestEnv, h, p, fails, world)
    /\ UNCHANGED <<relayVars, feedVars, reminderVars, evalVars, tokenCase, unsubEnv, unsubEvent, unsubResp,
                   digestEnv, clicked>>

\* One run of the digest handler, configured in full, over contacts that
\* share or differ in their postal code; the first send may raise.
RunDigestForecasts ==
    /\ digestRun = NoRun
    /\ \E h \in SeqsUpTo(ZipContacts, MaxContacts), p \in SeqsUpTo(ZipContacts, MaxContacts) :
          /\ Len(h) + Len(p) <= MaxContacts
          /\ \E fails \in SUBSET {1}, world \in Worlds(Zips) :
                digestRun' = digest_lambda_handler(digestEnv, h, p, fails, world)
    /\ UNCHANGED <<relayVars, feedVars, reminderVars, evalVars, tokenCase, unsubEnv, unsubEvent, unsubResp,
                   digestEnv, clicked>>

\* The days on which the filter is called: the end of a year and its first
\* day, the end of a leap February, the end of a 30-day month.
Todays ==
    { Date(2024, 12, d) : d \in 22..31 } \cup { Date(2025, 1, 1) }
    \cup { Date(2024, 2, d) : d \in 24..29 } \cup { Date(2024, 6, d) : d \in 28..30 }

\* How far from today the contests of the feed start.
StartOffsets == {-1, 0, 3, 6, 7, 8}

\* The items the feed may hold on day dt.
Feed(dt) ==
    { Contest("one day", OneDay(PlusDays(dt, k)), PlusDays(dt, k)) : k \in StartOffsets }
    \cup { Contest("two days", Span(PlusDays(dt, k), PlusDays(dt, k + 1)), PlusDays(dt, k)) :
             k \in {-1, 6} }
    \cup { Contest("no comma", NoComma, NoDate), Contest("no date", NoDatePart, NoDate) }

\* One call of filter_contests_for_next_week on what fetch_contest_data returned.
FilterContests ==
    /\ ~filterRun.done
    /\ \E contests \in SeqsUpTo(Feed(today), MaxContests), days \in {1, 7} :
          filterRun' = FilterRun(contests, days,
                                 filter_contests_for_next_week(contests, days), TRUE)
    /\ UNCHANGED <<today, relayVars, reminderVars, evalVars, mailVars>>

\* A recipient follows the unsubscribe link of the mail the digest sent them;
\* the unsubscribe handler runs with the secret the digest signed with.
FollowLink ==
    /\ clicked = 0
    /\ \E i \in DOMAIN digestRun.attempts, removeOk \in BOOLEAN :
          /\ digestRun.attempts[i].did = "sent"
          /\ clicked' = i
          /\ unsubEvent' = EventOfUrl(digestRun.attempts[i].unsub_url)
          /\ unsubResp' = unsub_lambda_handler(unsubEvent', unsubEnv, removeOk)
    /\ UNCHANGED <<relayVars, feedVars, reminderVars, evalVars, tokenCase, unsubEnv, digestEnv, digestRun>>

\* The values a field of the spot's JSON object may have: no such key, JSON
\* null, or a string.
SpotFields(texts) == {Absent, None} \cup texts

SpotEnvs ==
    { [discord_webhook |-> d, mattermost_webhook |-> m] :
        d \in {None, << >>, TxtHook}, m \in {None, << >>, TxtHook2} }

\* What a post may end in: success, or one of two RequestExceptions.
PostOutcomes == {"ok", "503 Server Error", "Connection refused"}

\* One spot event delivered to the spot bot.
SpotAlert ==
    /\ spotResp = NoSpotResponse
    /\ \E source \in SpotFields({TxtSota}), mode \in SpotFields({TxtCw}),
          mode_detail \in SpotFields({TxtCw}),
          d \in PostOutcomes, m \in PostOutcomes :
          /\ spotEvent' = SpotPayload(source, mode, mode_detail)
          /\ spotResp' = spot_lambda_handler(spotEvent', spotEnv,
                                             [Discord |-> d, Mattermost |-> m])
    /\ UNCHANGED <<spotEnv, feedVars, reminderVars, evalVars, mailVars>>

----------------------------------------------------------------------------
(* Initial states and specifications                                       *)

FeedIdle ==
    /\ today = Date(2024, 1, 1)
    /\ filterRun = NoFilterRun

RelayIdle ==
    /\ spotEnv = [discord_webhook |-> TxtHook, mattermost_webhook |-> TxtHook2]
    /\ spotEvent = SpotPayload(Absent, Absent, Absent)
    /\ spotResp = NoSpotResponse

EvalIdle ==
    /\ evalRule = NoRule
    /\ evalDone = FALSE
    /\ evalResult = Returned(FALSE)
    /\ evalNth = 0

ReminderIdle ==
    /\ now \in { [year |-> 2024, month |-> 1, day |-> 1, hour |-> 0] }
    /\ loaded = FALSE
    /\ SCHEDULES = << >>
    /\ outcome = "none"
    /\ sent = << >>
    /\ hourLog = << >>
    /\ monthLog = {}

MailIdle ==
    /\ tokenCase = TokenCase(TxtLowerEmail, TxtHtmlList, TxtSecretA, << >>, << >>,
                             Returned(FALSE), "idle")
    /\ unsubEnv = [SENDGRID_API_KEY |-> TxtApiKey, UNSUBSCRIBE_SECRET |-> TxtSecretA]
    /\ unsubEvent = NoEvent
    /\ unsubResp = NoResponse
    /\ digestEnv \in { d \in DigestEnvs : d.FROM_EMAIL # None /\ d.UNSUBSCRIBE_BASE_URL # None
                                         /\ d.UNSUBSCRIBE_SECRET # None }
    /\ digestRun = NoRun
    /\ clicked = 0

\* A container at the first hour of a month: either cold, or kept warm with a
\* module imported on an earlier day (an import succeeds on Monday..Saturday).
InitReminder ==
    /\ now \in MonthStarts
    /\ \/ loaded = FALSE /\ SCHEDULES = << >>
       \/ \E i \in DOMAIN CwStrings : loaded = TRUE /\ SCHEDULES = ScheduleTable(CwStrings[i])
    /\ outcome = "none"
    /\ sent = << >>
    /\ hourLog = << >>
    /\ monthLog = {}
    /\ EvalIdle
    /\ FeedIdle
    /\ RelayIdle
    /\ MailIdle

\* should_trigger is evaluated from the first hour of any month on.
InitTrigger ==
    /\ now \in MonthStarts
    /\ loaded = FALSE
    /\ SCHEDULES = << >>
    /\ outcome = "none"
    /\ sent = << >>
    /\ hourLog = << >>
    /\ monthLog = {}
    /\ EvalIdle
    /\ FeedIdle
    /\ RelayIdle
    /\ MailIdle

\* The token functions are applied to every (email, list_id, secret).
InitToken ==
    /\ ReminderIdle
    /\ EvalIdle
    /\ FeedIdle
    /\ RelayIdle
    /\ tokenCase \in { TokenCase(e, l, k, << >>, << >>, Returned(FALSE), "start") :
                         e \in Emails \cup {TxtOtherEmail}, l \in ListIds, k \in Secrets }
    /\ unsubEnv = [SENDGRID_API_KEY |-> TxtApiKey, UNSUBSCRIBE_SECRET |-> TxtSecretA]
    /\ unsubEvent = NoEvent
    /\ unsubResp = NoResponse
    /\ digestEnv \in { d \in DigestEnvs : d.FROM_EMAIL # None /\ d.UNSUBSCRIBE_BASE_URL # None
                                         /\ d.UNSUBSCRIBE_SECRET # None }
    /\ digestRun = NoRun
    /\ clicked = 0

\* The unsubscribe endpoint under any configuration of its environment.
InitUnsub ==
    /\ ReminderIdle
    /\ EvalIdle
    /\ FeedIdle
    /\ RelayIdle
    /\ tokenCase = TokenCase(TxtLowerEmail, TxtHtmlList, TxtSecretA, << >>, << >>,
                             Returned(FALSE), "idle")
    /\ unsubEnv \in UnsubEnvs
    /\ unsubEvent = NoEvent
    /\ unsubResp = NoResponse
    /\ digestEnv \in { d \in DigestEnvs : d.FROM_EMAIL # None /\ d.UNSUBSCRIBE_BASE_URL # None
                                         /\ d.UNSUBSCRIBE_SECRET # None }
    /\ digestRun = NoRun
    /\ clicked = 0

\* The digest under any configuration, and an unsubscribe endpoint that is
\* configured and holds the secret the digest holds.
InitMail ==
    /\ ReminderIdle
    /\ EvalIdle
    /\ FeedIdle
    /\ RelayIdle
    /\ tokenCase = TokenCase(TxtLowerEmail, TxtHtmlList, TxtSecretA, << >>, << >>,
                             Returned(FALSE), "idle")
    /\ digestEnv \in DigestEnvs
    /\ unsubEnv = [SENDGRID_API_KEY |-> TxtApiKey,
                   UNSUBSCRIBE_SECRET |-> digestEnv.UNSUBSCRIBE_SECRET]
    /\ unsubEvent = NoEvent
    /\ unsubResp = NoResponse
    /\ digestRun = NoRun
    /\ clicked = 0

\* The digest with every variable of its environment set.
InitForecasts ==
    /\ ReminderIdle
    /\ EvalIdle
    /\ FeedIdle
    /\ RelayIdle
    /\ MailIdle

\* The contest filter on any of the days of Todays.
InitContests ==
    /\ ReminderIdle
    /\ EvalIdle
    /\ RelayIdle
    /\ MailIdle
    /\ today \in Todays
    /\ filterRun = NoFilterRun

\* The spot bot under any configuration of its two webhooks.
InitSpot ==
    /\ ReminderIdle
    /\ EvalIdle
    /\ FeedIdle
    /\ MailIdle
    /\ spotEnv \in SpotEnvs
    /\ spotEvent = SpotPayload(Absent, Absent, Absent)
    /\ spotResp = NoSpotResponse

vars == <<now, loaded, SCHEDULES, outcome, sent, hourLog, monthLog,
          evalRule, evalDone, evalResult, evalNth,
          tokenCase, unsubEnv, unsubEvent, unsubResp, digestEnv, digestRun, clicked,
          spotEnv, spotEvent, spotResp, today, filterRun>>

Init == InitReminder \/ InitTrigger \/ InitToken \/ InitUnsub \/ InitMail \/ InitSpot
        \/ InitForecasts \/ InitContests

NextReminder == ColdInvoke \/ WarmInvoke \/ Tick

NextHourly == HourlyCold \/ HourlyWarm \/ HourlyTick

NextTrigger == Evaluate \/ EvalTick

NextToken == IssueToken \/ PresentToken

NextUnsub == Unsubscribe

NextMail == RunDigest \/ FollowLink

NextSpot == SpotAlert

NextForecasts == RunDigestForecasts

NextContests == FilterContests

Next == NextReminder \/ NextHourly \/ NextTrigger \/ NextToken \/ NextUnsub \/ NextMail
        \/ NextSpot \/ NextForecasts \/ NextContests

\* Every function of the repository, run in any order.
Spec == Init /\ [][Next]_vars

\* The reminder bot under arbitrary invocation times.
SpecReminder == InitReminder /\ [][NextReminder]_vars

\* The reminder bot under its hourly trigger.
SpecHourly == InitReminder /\ [][NextHourly]_vars

\* should_trigger and get_weekday_occurrence_in_month on every rule of TestRules
\* at every hour of every month.
SpecTrigger == InitTrigger /\ [][NextTrigger]_vars

\* generate_verification_token and verify_token on every input of the model.
SpecToken == InitToken /\ [][NextToken]_vars

\* The unsubscribe endpoint.
SpecUnsub == InitUnsub /\ [][NextUnsub]_vars

\* The digest and the unsubscribe links it mails.
SpecMail == InitMail /\ [][NextMail]_vars

\* The digest's weather lookups.
SpecForecasts == InitForecasts /\ [][NextForecasts]_vars

\* The contest filter.
SpecContests == InitContests /\ [][NextContests]_vars

\* The spot relay.
SpecSpot == InitSpot /\ [][NextSpot]_vars

----------------------------------------------------------------------------
(* Properties of the schedule predicate                                    *)

\* The 1-based number of days d in 1..dt.day of dt's month on dt's weekday.
OccurrenceInMonth(dt) ==
    Cardinality({ d \in 1..dt.day : Weekday(dt.year, dt.month, d) = NowWeekday(dt) })

\* C1 (as stated): should_trigger(rule, now) is true iff now.weekday is in
\* rule.days_of_week, now.hour equals rule.hour, and rule.week_of_month is
\* empty or contains the weekday-occurrence-in-month of now.
C1_DueIffEmptyOrListed ==
    evalDone =>
        evalResult = Returned(/\ NowWeekday(now) \in evalRule.days_of_week
                              /\ now.hour = evalRule.hour
                              /\ \/ evalRule.week_of_month = {}
                                 \/ OccurrenceInMonth(now) \in evalRule.week_of_month)

\* C1 (amended): should_trigger(rule, now) is true iff now.weekday is in
\* rule.days_of_week, now.hour equals rule.hour, and the rule has no
\* week_of_month field or its week_of_month contains the weekday-occurrence-
\* in-month of now; a rule whose days_of_week excludes now.weekday is never due.
C1_DueIffAbsentOrListed ==
    evalDone =>
        /\ evalResult = Returned(/\ NowWeekday(now) \in evalRule.days_of_week
                                 /\ now.hour = evalRule.hour
                                 /\ \/ ~evalRule.has_week_of_month
                                    \/ OccurrenceInMonth(now) \in evalRule.week_of_month)
        /\ NowWeekday(now) \notin evalRule.days_of_week => ~evalResult.value

\* A rule restricted to weeks 1 and 3 found due on a third occurrence.
C1_Witness ==
    /\ evalDone
    /\ evalResult.value
    /\ evalRule.has_week_of_month
    /\ evalRule.week_of_month = {1, 3}
    /\ evalNth = 3

\* C2: get_weekday_occurrence_in_month(dt) is the number of days in 1..dt.day
\* on dt's weekday: 1 in the first seven days, one more every 7 days, 5 on the
\* last such date of a month holding five of them, always within 1..5; and
\* 2024-12-01, -08, -15 (Sundays) give 1, 2, 3.
C2_OccurrenceCount ==
    evalNth # 0 =>
        /\ evalNth = OccurrenceInMonth(now)
        /\ evalNth = ((now.day - 1) \div 7) + 1
        /\ evalNth \in 1..5
        /\ now.day <= 7 => evalNth = 1
        /\ now.day > 28 => evalNth = 5
        /\ (now.year = 2024 /\ now.month = 12 /\ now.day = 1) => (NowWeekday(now) = 6 /\ evalNth = 1)
        /\ (now.year = 2024 /\ now.month = 12 /\ now.day = 8) => (NowWeekday(now) = 6 /\ evalNth = 2)
        /\ (now.year = 2024 /\ now.month = 12 /\ now.day = 15) => (NowWeekday(now) = 6 /\ evalNth = 3)

\* The fifth occurrence of a weekday is counted as 5.
C2_Witness == evalNth = 5 /\ now.day > 28

\* C3: a rule with no week_of_month field is due at every instant whose
\* weekday is in days_of_week and whose hour is the rule's hour, whatever the
\* occurrence of the weekday in the month, and evaluating it raises no error.
C3_AbsentWeekUnrestricted ==
    (evalDone /\ ~evalRule.has_week_of_month) =>
        /\ ~evalResult.raised
        /\ evalResult.value = (/\ NowWeekday(now) \in evalRule.days_of_week
                               /\ now.hour = evalRule.hour)

\* A rule with no week_of_month field found due on a fifth occurrence.
C3_Witness ==
    /\ evalDone
    /\ ~evalRule.has_week_of_month
    /\ evalResult.value
    /\ OccurrenceInMonth(now) = 5

----------------------------------------------------------------------------
(* Properties of the reminder handler                                      *)

Names(rules) == [i \in DOMAIN rules |-> rules[i].name]

\* The rule is due at dt, as the schedule contract defines it.
DueBySpec(r, dt) ==
    /\ NowWeekday(dt) \in r.days_of_week
    /\ dt.hour = r.hour
    /\ ~r.has_week_of_month \/ OccurrenceInMonth(dt) \in r.week_of_month

\* The names of the rules of SCHEDULES due at dt, in SCHEDULES order.
DueNames(dt) == Names(SelectSeq(ScheduleTable(""), LAMBDA r : DueBySpec(r, dt)))

\* C4: in one invocation the rules for which a message is dispatched are
\* exactly the rules of SCHEDULES due at that instant, in SCHEDULES order,
\* each once; two rules sharing weekday and hour are both dispatched.
C4_DispatchesExactlyDue ==
    outcome # "none" => Names(sent) = DueNames(now)

\* Whenever the handler itself ran, what it dispatched is the due rules.
HandlerDispatchesDue ==
    outcome = "ok" => Names(sent) = DueNames(now)

\* The first Sunday of now's month.
FirstSunday(dt) == CHOOSE d \in 1..7 : Weekday(dt.year, dt.month, d) = 6

MonthDispatches(n) == { e \in monthLog : e[1] = n }

\* C5: under the hourly trigger, over a whole calendar month a rule with
\* days_of_week [6], week_of_month [1,3] and hour h is dispatched exactly
\* twice: on the first and on the third Sunday at hour h, and at no other time.
C5_TwiceAMonth ==
    /\ \A e \in monthLog :
          e[1] \in {"EVSRT Reminder", "EVSRT Now"} =>
              /\ e[2] \in {FirstSunday(now), FirstSunday(now) + 14}
              /\ e[3] = (IF e[1] = "EVSRT Reminder" THEN 12 ELSE 21)
    /\ (now.day \in {FirstSunday(now), FirstSunday(now) + 14} /\ hourLog # << >>) =>
          /\ now.hour = 12 => <<"EVSRT Reminder", now.day, 12>> \in monthLog
          /\ now.hour = 21 => <<"EVSRT Now", now.day, 21>> \in monthLog
    /\ (LastHourOfMonth(now) /\ hourLog # << >>) =>
          /\ MonthDispatches("EVSRT Reminder")
                = { <<"EVSRT Reminder", FirstSunday(now), 12>>,
                    <<"EVSRT Reminder", FirstSunday(now) + 14, 12>> }
          /\ MonthDispatches("EVSRT Now")
                = { <<"EVSRT Now", FirstSunday(now), 21>>,
                    <<"EVSRT Now", FirstSunday(now) + 14, 21>> }

----------------------------------------------------------------------------
(* Properties of the token scheme and of the unsubscribe path              *)

\* C7: verify_token(email, list_id, generate_verification_token(email,
\* list_id, secret), secret) is true for every (email, list_id, secret).
C7_IssuedTokenVerifies ==
    (tokenCase.step = "verified" /\ tokenCase.candidate = tokenCase.issued) =>
        tokenCase.result = Returned(TRUE)

\* An issued token was presented unchanged and accepted.
C7_Witness ==
    /\ tokenCase.step = "verified"
    /\ Len(tokenCase.issued) = 12
    /\ tokenCase.candidate = tokenCase.issued
    /\ tokenCase.result.value

\* C8: verify_token returns false and never raises for every candidate that
\* differs from the expected token: empty, truncated, of another length,
\* differently cased, or made of characters no hex token holds.
C8_MismatchIsFalse ==
    (tokenCase.step = "verified" /\ tokenCase.candidate # tokenCase.issued) =>
        tokenCase.result = Returned(FALSE)

\* The request names email, list and verify, and the environment is configured.
UnsubReady ==
    /\ unsubResp # NoResponse
    /\ ~NoParams(unsubEvent)
    /\ ~Falsy(unsubEvent.email) /\ ~Falsy(unsubEvent.list) /\ ~Falsy(unsubEvent.verify)
    /\ ~Falsy(unsubEnv.SENDGRID_API_KEY) /\ ~Falsy(unsubEnv.UNSUBSCRIBE_SECRET)

\* The token the handler expects for the request.
ExpectedToken ==
    generate_verification_token(Lower(unsubEvent.email), unsubEvent.list,
                                unsubEnv.UNSUBSCRIBE_SECRET).value

\* C9: with email, list and verify present and the environment configured, a
\* presented token that does not match the expected one yields status 403
\* and no call of remove_from_sendgrid_list; removal is attempted only after
\* verify_token returned true.
C9_MismatchForbidden ==
    /\ (UnsubReady /\ unsubEvent.verify # ExpectedToken) =>
          /\ unsubResp.statusCode = 403
          /\ unsubResp.removeCalls = << >>
    /\ unsubResp.removeCalls # << >> => unsubResp.verify = "true"

\* C10: the unsubscribe URL the digest mails to a recipient, presented
\* unchanged to the unsubscribe handler under the same secret, passes
\* parameter validation and token verification (no 400, no 403), whatever
\* the case of the letters of the address.
C10_MailedLinkAccepted ==
    clicked # 0 => unsubResp.statusCode \notin {400, 403}

----------------------------------------------------------------------------
(* The token's shape                                                       *)

LowerHex == (48..57) \cup (97..102)

\* C11: the token issued for (email, list_id, secret) is exactly 12 characters
\* long, every one of them a lower-case hexadecimal digit; computing it again
\* from the same three inputs gives the same token, and the copy in
\* email-digest gives the token the copy in email-unsub gives.
C11_TokenShape ==
    tokenCase.step # "start" =>
        /\ Len(tokenCase.issued) = 12
        /\ \A i \in DOMAIN tokenCase.issued : tokenCase.issued[i] \in LowerHex
        /\ generate_verification_token(tokenCase.email, tokenCase.list_id,
                                       tokenCase.secret) = Returned(tokenCase.issued)
        /\ tokenCase.mailed = tokenCase.issued

C11_Witness ==
    /\ tokenCase.step = "issued"
    /\ tokenCase.email = TxtMixedEmail
    /\ Len(tokenCase.mailed) = 12
    /\ \E i \in DOMAIN tokenCase.issued : tokenCase.issued[i] \in 97..102

----------------------------------------------------------------------------
(* The daily CW phrase                                                     *)

\* C12: the phrase list has exactly 7 entries, so the index now_pt.weekday()
\* is inside it on every day of the week, and every invocation, Sunday's
\* included, gets the module loaded without an error.
C12_PhraseForEveryWeekday ==
    outcome # "none" =>
        /\ Len(CwStrings) = 7
        /\ NowWeekday(now) + 1 \in DOMAIN CwStrings
        /\ outcome # "init_error"

----------------------------------------------------------------------------
(* The unsubscribe endpoint's answers                                      *)

\* The request lacks one of the three parameters, or carries it empty.
MissingParam(event) ==
    \/ event.null
    \/ Falsy(event.email) \/ Falsy(event.list) \/ Falsy(event.verify)

EnvUnset(env) == env.SENDGRID_API_KEY = None \/ env.UNSUBSCRIBE_SECRET = None

\* C14: a request without query parameters, or with email, list or verify
\* missing or empty, is answered 400 with no token verified and no SendGrid
\* call made, whatever the environment holds, unset variables included.
C14_MissingParamIsBadRequest ==
    (unsubResp # NoResponse /\ MissingParam(unsubEvent)) =>
        /\ unsubResp.statusCode = 400
        /\ unsubResp.body \in {"Missing parameters", "Missing email, list, or verify parameter"}
        /\ unsubResp.verify = "not called"
        /\ unsubResp.removeCalls = << >>

C14_Witness ==
    /\ unsubResp.statusCode = 400
    /\ unsubEnv.SENDGRID_API_KEY = None /\ unsubEnv.UNSUBSCRIBE_SECRET = None
    /\ ~unsubEvent.null
    /\ unsubEvent.email = TxtMixedEmail /\ unsubEvent.list = TxtHtmlList
    /\ unsubEvent.verify = << >>

\* The statement of C15 as written: its last clause has every request that
\* meets an unset variable answered 500.
C15_AnswersAsWritten ==
    unsubResp # NoResponse =>
        /\ unsubResp.statusCode \in {200, 400, 403, 500}
        /\ unsubResp.statusCode = 200 =>
              /\ unsubResp.verify = "true"
              /\ Len(unsubResp.removeCalls) = 1 /\ unsubResp.removeCalls[1][4]
        /\ (unsubResp.verify = "true" /\ ~unsubResp.removeCalls[1][4]) =>
              unsubResp.statusCode = 500
        /\ EnvUnset(unsubEnv) => unsubResp.statusCode = 500

\* C15: every request is answered with status 200, 400, 403 or 500 (no
\* exception leaves the handler); 200 only when verify_token returned true
\* and remove_from_sendgrid_list returned true; 500 when the removal of a
\* verified request fails, and 500 when SENDGRID_API_KEY or
\* UNSUBSCRIBE_SECRET is unset and the request carries all three parameters.
C15_Answers ==
    unsubResp # NoResponse =>
        /\ unsubResp.statusCode \in {200, 400, 403, 500}
        /\ unsubResp.statusCode = 200 =>
              /\ unsubResp.verify = "true"
              /\ Len(unsubResp.removeCalls) = 1 /\ unsubResp.removeCalls[1][4]
        /\ (unsubResp.verify = "true" /\ ~unsubResp.removeCalls[1][4]) =>
              unsubResp.statusCode = 500
        /\ (EnvUnset(unsubEnv) /\ ~MissingParam(unsubEvent)) => unsubResp.statusCode = 500

C15_Witness ==
    /\ unsubResp.statusCode = 500
    /\ unsubResp.body = "Configuration error"
    /\ unsubEnv.UNSUBSCRIBE_SECRET = None
    /\ ~MissingParam(unsubEvent)

\* The three other answers are given too.
C15_Removed == unsubResp.statusCode = 200 /\ unsubResp.removeCalls[1][4]
C15_RemovalFailed == unsubResp.verify = "true" /\ unsubResp.statusCode = 500

----------------------------------------------------------------------------
(* The spot relay                                                          *)

\* The targets the environment configures, in the order the handler takes them.
ConfiguredTargets ==
    SelectSeq(<<"Discord", "Mattermost">>,
              LAMBDA t : IF t = "Discord" THEN ~Falsy(spotEnv.discord_webhook)
                         ELSE ~Falsy(spotEnv.mattermost_webhook))

Range(q) == { q[i] : i \in DOMAIN q }

PostedTargets == [i \in DOMAIN spotResp.posts |-> spotResp.posts[i].to]

\* What C16 says the handler does with an event.
RelayedInFull ==
    /\ spotResp.statusCode = 200
    /\ Len(spotResp.results) = 2
    /\ spotResp.results[1].to = "Discord" /\ spotResp.results[2].to = "Mattermost"
    /\ \A i \in 1..2 :
          /\ spotResp.results[i].outcome \in {"Success", "Failed", "Not configured"}
          /\ spotResp.results[i].outcome = "Not configured"
                <=> spotResp.results[i].to \notin Range(ConfiguredTargets)
    /\ PostedTargets = ConfiguredTargets

\* The statement of C16 as written: every event whose body is a JSON object
\* is relayed in full.
C16_EveryObjectRelayed ==
    (spotResp # NoSpotResponse) => RelayedInFull

\* source, mode and modeDetail are each a string or not in the object.
TextFields(payload) ==
    payload.source # None /\ payload.mode # None /\ payload.modeDetail # None

\* C16: for every spot event whose body is a JSON object in which source,
\* mode and modeDetail are strings or absent, the handler returns 200 with
\* exactly two results, Discord's first and Mattermost's second, each
\* Success, Failed or Not configured; each configured webhook is posted to
\* exactly once, Discord before Mattermost, also after a failed or
\* unconfigured Discord delivery.
C16_TextObjectRelayed ==
    (spotResp # NoSpotResponse /\ TextFields(spotEvent)) => RelayedInFull

C16_Witness ==
    /\ TextFields(spotEvent)
    /\ spotResp.statusCode = 200
    /\ spotResp.results[1].outcome = "Failed"
    /\ spotResp.results[2].outcome = "Success"
    /\ PostedTargets = <<"Discord", "Mattermost">>

\* With an unconfigured Discord webhook Mattermost is still posted to.
C16_MattermostAlone ==
    /\ spotResp.statusCode = 200
    /\ spotResp.results[1].outcome = "Not configured"
    /\ PostedTargets = <<"Mattermost">>

----------------------------------------------------------------------------
(* The digest's send loop                                                  *)

\* The recipients the loop tried to send to, in order.
Attempted == SelectSeq(digestRun.attempts, LAMBDA a : a.did \in {"sent", "send raised"})

\* The recipients of the list that have an email address and a postal code.
Addressable == SelectSeq(digestRun.recipients,
                         LAMBDA r : ~Falsy(r.email) /\ ~Falsy(r.postal_code))

Addressee(r) == <<r.type, r.email, r.postal_code>>

\* Every recipient with an email and a postal code got one send attempt, the
\* others none, in the order of the list, HTML contacts before plain ones.
OneAttemptEach ==
    /\ [k \in DOMAIN Attempted |->
          <<Attempted[k].type, Attempted[k].to, Attempted[k].postal_code>>]
       = [k \in DOMAIN Addressable |-> Addressee(Addressable[k])]
    /\ \A i, j \in DOMAIN Attempted :
          (Attempted[i].type = "plain" /\ Attempted[j].type = "html") => j < i

\* The lists were fetched and at least one contact came back.
HasRecipients == digestRun.recipients # << >>

\* C17: in a run of the digest handler every recipient that has an email
\* address and a postal code gets exactly one send attempt, in list order
\* (HTML list before plain list), a recipient lacking either gets none, and
\* an exception raised while sending to one recipient stops nothing: the
\* later recipients are attempted and the handler returns 200.
C17_EveryRecipientAttempted ==
    HasRecipients =>
        /\ OneAttemptEach
        /\ digestRun.statusCode = 200

\* With the two unsubscribe variables set the run does go through the list.
AttemptedWhenLinkable ==
    (HasRecipients /\ digestEnv.UNSUBSCRIBE_BASE_URL # None
        /\ digestEnv.UNSUBSCRIBE_SECRET # None) =>
        (OneAttemptEach /\ digestRun.statusCode = 200)

\* A send that raised, followed by a send that went through.
SendGoesOnAfterFailure ==
    \E i, j \in DOMAIN digestRun.attempts :
        /\ i < j
        /\ digestRun.attempts[i].did = "send raised"
        /\ digestRun.attempts[j].did = "sent"
        /\ digestRun.statusCode = 200

\* C18: the N of 'Emails sent to N recipients' is the number of recipients
\* an email was actually sent to; skipped recipients and recipients whose
\* send raised are not counted.
C18_ReportedIsSent ==
    digestRun.statusCode = 200 =>
        digestRun.reported
          = Len(SelectSeq(digestRun.attempts, LAMBDA a : a.did = "sent"))

\* What the handler reports is the length of the list it went through.
ReportedIsListed ==
    digestRun.statusCode = 200 => digestRun.reported = Len(digestRun.recipients)

----------------------------------------------------------------------------
(* The digest's weather lookups                                            *)

\* The calls to fn made for postal code z in the run.
LookupsOf(fn, z) ==
    SelectSeq(digestRun.lookups, LAMBDA c : c.fn = fn /\ c.zip = z)

\* C19: in a run of the digest handler zip_to_coords and
\* fetch_weather_forecast are each called at most once per distinct postal
\* code, also when the lookup gave nothing (no second call is made for a
\* later recipient with that postal code), a recipient without a postal code
\* causes no lookup, and all recipients sharing a postal code are rendered
\* the same forecast.
C19_OneLookupPerZip ==
    digestRun # NoRun =>
        /\ \A z \in Zips :
              /\ Len(LookupsOf("zip_to_coords", z))
                   = IF \E i \in DOMAIN digestRun.recipients :
                           digestRun.recipients[i].postal_code = z THEN 1 ELSE 0
              /\ Len(LookupsOf("fetch_weather_forecast", z)) <= 1
        /\ \A k \in DOMAIN digestRun.lookups : digestRun.lookups[k].zip \in Zips
        /\ \A i, j \in DOMAIN Attempted :
              Attempted[i].postal_code = Attempted[j].postal_code
                => Attempted[i].forecast = Attempted[j].forecast

\* Two recipients share a postal code whose geocoding failed: one call, no
\* forecast for either.
C19_Witness ==
    /\ Len(Attempted) = 2
    /\ Attempted[1].postal_code = TxtZip /\ Attempted[2].postal_code = TxtZip
    /\ Attempted[1].forecast = None /\ Attempted[2].forecast = None
    /\ digestRun.lookups = << [fn |-> "zip_to_coords", zip |-> TxtZip] >>

\* Two recipients share a forecast that was fetched once, a third has another.
C19_SharedForecast ==
    /\ \E i, j \in DOMAIN Attempted :
          /\ i # j
          /\ Attempted[i].forecast = Attempted[j].forecast
          /\ Attempted[i].forecast # None
    /\ Len(LookupsOf("fetch_weather_forecast", TxtZip)) = 1

----------------------------------------------------------------------------
(* The contest filter                                                      *)

\* The contests of q that start on one of the `days` days from today on, and
\* those whose description names no date.
StartingWithin(q, days) ==
    SelectSeq(q, LAMBDA c :
        \/ c.start = NoDate
        \/ /\ Ordinal(today) <= Ordinal(c.start)
           /\ Ordinal(c.start) < Ordinal(today) + days)

\* C20: filter_contests_for_next_week(contests, days) returns, in input
\* order, the contests whose start date d satisfies today <= d < today + days
\* together with those whose description has no comma or no parseable date,
\* on every day, the last days of December included, when d may lie in
\* January of the next year.
C20_KeepsNextDays ==
    filterRun.done => filterRun.filtered = StartingWithin(filterRun.contests, filterRun.days)

\* The same, on the days whose window ends within the year.
KeepsNextDaysWithinYear ==
    (filterRun.done /\ PlusDays(today, filterRun.days).year = today.year) =>
        filterRun.filtered = StartingWithin(filterRun.contests, filterRun.days)

----------------------------------------------------------------------------
(* The daily CW phrase over a warm container                               *)

\* The 'Daily CW Practice Check-In' rules among those the last invocation
\* dispatched.
CwDispatched == SelectSeq(sent, LAMBDA r : r.name = "Daily CW Practice Check-In")

\* C21: over the invocations one loaded module serves, the message of every
\* 'Daily CW Practice Check-In' dispatch is the phrase cw_random_string
\* selects for the Pacific weekday of that invocation's instant, whatever
\* the weekday the module was loaded on.
C21_PhraseOfInvocationDay ==
    \A j \in DOMAIN CwDispatched :
        cw_random_string(now) = [raised |-> FALSE, value |-> CwDispatched[j].message]

\* What is dispatched is the phrase SCHEDULES was built with at import.
PhraseOfLoadDay ==
    \A j \in DOMAIN CwDispatched :
        loaded /\ CwDispatched[j].message = SCHEDULES[3].message

\* A dispatch on a weekday other than Sunday of a phrase that is not that
\* weekday's.
StalePhraseDispatched ==
    \E j \in DOMAIN CwDispatched :
        /\ NowWeekday(now) # 6
        /\ CwDispatched[j].message # CwStrings[NowWeekday(now) + 1]

====
